---------------------------- MODULE Spec2Model ----------------------------
(***************************************************************************)
(* pg_human (src/lib.rs): a PostgreSQL extension that introspects the      *)
(* current schema, builds a chat prompt from it and a question, asks a     *)
(* completion API for SQL under a wait ceiling, and prints or executes     *)
(* the generated SQL.                                                      *)
(*                                                                         *)
(* Text is modelled as a sequence of tokens (a token is a character or a   *)
(* literal piece of a format string); concatenation is \o.                 *)
(***************************************************************************)
EXTENDS Integers, Sequences, FiniteSets

VARIABLES
    op,            \* the #[pg_extern] entry function that was called
    question,      \* its argument
    apiKey,        \* API_KEY.get(): the pg_human.api_key setting, or None
    transport,     \* whether the completion request ever resolves
    catalog,       \* information_schema.columns of the database
    constraints,   \* pg_constraint of the database
    pc,            \* position of the invocation
    rows,          \* tuple table returned by tables_query
    descriptions,  \* every DatabaseDescription built so far, oldest first
    prompt,        \* Vec<ChatCompletionMessage> of question_prompt
    requests,      \* completion requests issued
    elapsed,       \* seconds waited on the outstanding request
    response,      \* what the completion request resolved to
    dbLog,         \* statements sent to the database through SPI, in order
    tup_table,     \* what client.select of the wrapped query gave
    notices,       \* notice! messages raised
    outcome,       \* how the invocation ended
    result         \* value returned to the SQL caller

vars == <<op, question, apiKey, transport, catalog, constraints, pc, rows,
          descriptions, prompt, requests, elapsed, response, dbLog, tup_table,
          notices, outcome, result>>

--------------------------------------------------------------------------
(* Bounds of the model *)

MaxCatalogRows == 2
MaxGroupRows == 4
MaxDescribes == 2
MaxSqlLen == 5
MaxChoices == 2
MaxResultRows == 2

(* Duration::from_secs(20) *)
TIMEOUT_SECS == 20

(* largest value of the row counter i: i32 *)
I32Max == 2147483647

None == "None"

SeqsUpTo(S, n) == UNION {[1..k -> S] : k \in 0..n}

Last(s) == s[Len(s)]

RECURSIVE Flatten(_)
Flatten(ss) == IF ss = <<>> THEN <<>> ELSE Head(ss) \o Flatten(Tail(ss))

RECURSIVE Orderings(_)
Orderings(S) ==
    IF S = {} THEN {<<>>}
    ELSE UNION {{<<x>> \o p : p \in Orderings(S \ {x})} : x \in S}

--------------------------------------------------------------------------
(* The database the extension runs in *)

(* Identifiers in collation order: ORDER BY compares by position here. *)
Collation == <<"ads", "app", "audit", "log", "public", "users">>

Rank(s) == CHOOSE i \in DOMAIN Collation : Collation[i] = s

(* current_schemas(false): the schemas on the search path *)
CurrentSchemas == {"app", "public"}

TableKeys == {<<"app", "ads">>, <<"public", "ads">>, <<"public", "users">>,
              <<"audit", "log">>}

(* Rows information_schema.columns may hold.  Ordinal position 1 is a      *)
(* column "name", position 2 a column "id": name order and ordinal order   *)
(* differ.                                                                 *)
ColumnUniverse ==
    {[table_schema |-> k[1], table_name |-> k[2], column_name |-> c[1],
      data_type |-> c[2], ordinal_position |-> c[3]] :
        k \in TableKeys, c \in {<<"name", "text", 1>>, <<"id", "bigint", 2>>}}

(* Rows pg_constraint may hold, as (schema, table, pg_get_constraintdef). *)
ConstraintUniverse ==
    {[nspname |-> "public", relname |-> "ads", def |-> "PRIMARY KEY (id)"],
     [nspname |-> "public", relname |-> "ads", def |-> "UNIQUE (name)"],
     [nspname |-> "app", relname |-> "ads", def |-> "PRIMARY KEY (id)"]}

Catalogs == {c \in SUBSET ColumnUniverse : Cardinality(c) <= MaxCatalogRows}

(* ORDER BY table_schema, table_name, ordinal_position *)
ColumnBefore(a, b) ==
    \/ Rank(a.table_schema) < Rank(b.table_schema)
    \/ /\ a.table_schema = b.table_schema
       /\ Rank(a.table_name) < Rank(b.table_name)
    \/ /\ a.table_schema = b.table_schema
       /\ a.table_name = b.table_name
       /\ a.ordinal_position < b.ordinal_position

RECURSIVE OrderBy(_)
OrderBy(S) ==
    IF S = {} THEN <<>>
    ELSE LET m == CHOOSE x \in S : \A y \in S \ {x} : ColumnBefore(x, y)
         IN  <<m>> \o OrderBy(S \ {m})

(* The SELECT list of tables_query: row[1..4] *)
SelectList(c) == <<c.table_schema, c.table_name, c.column_name, c.data_type>>

(* tables_query run on a catalog: WHERE, ORDER BY, SELECT list *)
TablesQuery(cat) ==
    LET visible == {c \in cat : c.table_schema \in CurrentSchemas}
        sorted == OrderBy(visible)
    IN  [i \in 1..Len(sorted) |-> SelectList(sorted[i])]

(* constraint_query($1, $2): it has no ORDER BY, so the rows come back in  *)
(* whatever order the executor produces them: any order.                   *)
ConstraintQuery(cons, schema, name) ==
    LET defs == {c \in cons : c.nspname = schema /\ c.relname = name}
    IN  {[i \in 1..Len(p) |-> p[i].def] : p \in Orderings(defs)}

--------------------------------------------------------------------------
(* DatabaseDescription::new *)

RECURSIVE GroupByNameOnly(_, _)
GroupByNameOnly(rs, acc) ==
    IF rs = <<>> THEN acc
    ELSE LET row == Head(rs)
             column == [name |-> row[3], type_name |-> row[4]]
         IN  IF acc # <<>> /\ Last(acc).name = row[2]
             THEN GroupByNameOnly(Tail(rs),
                          [acc EXCEPT ![Len(acc)].columns = Append(@, column)])
             ELSE GroupByNameOnly(Tail(rs),
                          Append(acc, [schema |-> row[1], name |-> row[2],
                                       columns |-> <<column>>,
                                       constraints |-> <<>>]))

(* group_by(key).map(TableDescription {..}).collect(): a new group starts  *)
(* whenever the key differs from the key of the previous row.              *)
RECURSIVE GroupBy(_, _)
GroupBy(rs, acc) ==
    IF rs = <<>> THEN acc
    ELSE LET row == Head(rs)
             column == [name |-> row[3], type_name |-> row[4]]
         IN  IF acc # <<>> /\ Last(acc).schema = row[1] /\ Last(acc).name = row[2]
             THEN GroupBy(Tail(rs),
                          [acc EXCEPT ![Len(acc)].columns = Append(@, column)])
             ELSE GroupBy(Tail(rs),
                          Append(acc, [schema |-> row[1], name |-> row[2],
                                       columns |-> <<column>>,
                                       constraints |-> <<>>]))

GroupTables(rs) == GroupBy(rs, <<>>)

(* for table in tables.iter_mut() { table.constraints.extend(..) }: every  *)
(* way the per-table constraint queries can come back.                     *)
RECURSIVE AttachConstraints(_, _)
AttachConstraints(tables, cons) ==
    IF tables = <<>> THEN {<<>>}
    ELSE {<<[Head(tables) EXCEPT !.constraints = @ \o cs]>> \o rest :
            cs \in ConstraintQuery(cons, Head(tables).schema, Head(tables).name),
            rest \in AttachConstraints(Tail(tables), cons)}

(* The descriptions DatabaseDescription::new() can return *)
DatabaseDescriptionNew(cat, cons) ==
    {[tables |-> ts] : ts \in AttachConstraints(GroupTables(TablesQuery(cat)), cons)}

(* The statements DatabaseDescription::new() sends through SPI *)
IntrospectionStatements(tables) ==
    <<[kind |-> "tables_query", sql |-> <<>>]>> \o
    [i \in 1..Len(tables) |->
        [kind |-> "constraint_query", sql |-> <<tables[i].schema, tables[i].name>>]]

--------------------------------------------------------------------------
(* impl fmt::Display: alt is formatter.alternate(), the {:#} form *)

(* pgx::spi::quote_qualified_identifier: the identifiers of the model are  *)
(* lower-case words, which it leaves unquoted.                             *)
QuoteQualifiedIdentifier(schema, name) == <<schema, ".", name>>

FmtColumn(column) == <<column.name, " ", column.type_name>>

FmtTable(table, alt) ==
    <<"CREATE TABLE ">> \o QuoteQualifiedIdentifier(table.schema, table.name)
    \o <<"(">>
    \o Flatten([i \in 1..Len(table.columns) |->
            (IF i > 1 THEN <<",">> ELSE <<>>)
            \o (IF alt THEN <<"\n    ">> \o FmtColumn(table.columns[i])
                ELSE (IF i > 1 THEN <<" ">> ELSE <<>>)
                     \o FmtColumn(table.columns[i]))])
    \o Flatten([i \in 1..Len(table.constraints) |->
            <<",">>
            \o (IF alt THEN <<"\n    ", table.constraints[i]>>
                ELSE <<" ", table.constraints[i]>>)])
    \o (IF alt THEN <<"\n">> ELSE <<>>)
    \o <<");">>

FmtDatabase(db, alt) ==
    Flatten([i \in 1..Len(db.tables) |->
        IF alt THEN (IF i > 1 THEN <<"\n\n">> ELSE <<>>)
                    \o FmtTable(db.tables[i], TRUE)
        ELSE FmtTable(db.tables[i], FALSE)])

--------------------------------------------------------------------------
(* question_prompt *)

PersonaText == <<"You are a PostgreSQL expert">>

QuestionPromptCompact(db, q) ==
    << [role |-> "System", content |-> PersonaText],
       [role |-> "User",
        content |-> <<"My Postgres database schema looks like this:\n">>
                    \o FmtDatabase(db, FALSE) \o <<".">>],
       [role |-> "User",
        content |-> <<"Given that schema, could you give me a PostgreSQL query to do the following action: ">>
                    \o q
                    \o <<".\n Only respond with the SQL code, so no other additional text. Only use the tables and columns provided in the schema.">>] >>

QuestionPrompt(db, q) ==
    << [role |-> "System", content |-> PersonaText],
       [role |-> "User",
        content |-> <<"My Postgres database schema looks like this:\n">>
                    \o FmtDatabase(db, TRUE) \o <<".">>],
       [role |-> "User",
        content |-> <<"Given that schema, could you give me a PostgreSQL query to do the following action: ">>
                    \o q
                    \o <<".\n Only respond with the SQL code, so no other additional text. Only use the tables and columns provided in the schema.">>] >>

--------------------------------------------------------------------------
(* Inputs of an invocation *)

Ops == {"give_me_a_query_to", "im_feeling_lucky", "im_feeling_lucky_dml"}

Questions == {<<"list", " ", "ads">>, <<"count users">>}

(* Characters of a generated SQL text: the three that trim_end_matches     *)
(* removes, and one that stands for every other character.                 *)
SqlAlphabet == {"x", ";", "\n", " "}

SqlTexts == {<<"x">>, <<"x", ";", "x", ";", "\n">>}

AllSqlTexts == SeqsUpTo(SqlAlphabet, MaxSqlLen)

(* What the request future of ChatCompletion::create can resolve to:       *)
(* Err(reqwest::Error), Ok(Err(OpenAiError)) or Ok(Ok(ChatCompletion)).    *)
ResponsesOf(texts, n) ==
    {[kind |-> "reqwest::Error", choices |-> <<>>],
     [kind |-> "OpenAiError", choices |-> <<>>]}
    \cup {[kind |-> "ok", choices |-> c] : c \in SeqsUpTo(texts, n)}

Responses == ResponsesOf(SqlTexts, MaxChoices)

NoResponse == [kind |-> "none", choices |-> <<>>]

(* A datum of the column "data": a jsonb value, one that value::<JsonB>()  *)
(* fails to convert ("bad"), or SQL NULL ("null").                         *)
JsonDatums == {"j1", "j2"}

Datums == JsonDatums \cup {"bad", "null"}

(* What client.select of the wrapped query can give: Err, or a tuple table *)
DbReadResultsOf(n) ==
    {[ok |-> FALSE, data |-> <<>>]}
    \cup {[ok |-> TRUE, data |-> d] : d \in SeqsUpTo(Datums, n)}

DbReadResults == DbReadResultsOf(MaxResultRows)

NoTupTable == [ok |-> FALSE, data |-> <<>>]

--------------------------------------------------------------------------
(* Outcomes and returned values *)

Running == [kind |-> "none", what |-> ""]
Ok == [kind |-> "ok", what |-> ""]
Err(e) == [kind |-> "err", what |-> e]
Panic(msg) == [kind |-> "panic", what |-> msg]

NoResult == [type |-> "none", value |-> <<>>]
Unit == [type |-> "()", value |-> <<>>]
TableIterator(rs) == [type |-> "TableIterator", value |-> rs]

I32IncForgotten(i) == i

(* i += 1 on an i32: past I32Max the counter wraps to the smallest value *)
I32Inc(i) == IF i = I32Max THEN (0 - I32Max) - 1 ELSE i + 1

IsGenerated(stmt) == stmt.kind \in {"select", "update"}

--------------------------------------------------------------------------
(* complete_prompt, up to the await: set_key(API_KEY.get().expect(..)),    *)
(* then the request is built and awaited under timeout().                  *)

CompletePromptStartUnwrapOr(key) ==
    [pc |-> "awaiting", outcome |-> Running, issued |-> 1]

CompletePromptStart(key) ==
    IF key = None
    THEN [pc |-> "done", outcome |-> Panic("pg_human.api_key is not set"),
          issued |-> 0]
    ELSE [pc |-> "awaiting", outcome |-> Running, issued |-> 1]

--------------------------------------------------------------------------
(* complete_prompt, from the point where the request has resolved *)

CompletePromptUnwrapOrDefault(resp) ==
    IF resp.kind # "ok" \/ resp.choices = <<>> THEN [outcome |-> Ok, text |-> <<>>]
    ELSE [outcome |-> Ok, text |-> resp.choices[1]]

CompletePrompt(resp) ==
    IF resp.kind # "ok" THEN [outcome |-> Err(resp.kind), text |-> <<>>]
    ELSE IF resp.choices = <<>>
         THEN [outcome |-> Panic("removal index (is 0) should be < len (is 0)"),
               text |-> <<>>]
    ELSE [outcome |-> Ok, text |-> resp.choices[1]]

--------------------------------------------------------------------------
(* im_feeling_lucky: the part after complete_prompt *)

TrimChars == {";", "\n", " "}

TrimEndMatchesOnce(s, pat) ==
    IF s = <<>> \/ Last(s) \notin pat THEN s ELSE SubSeq(s, 1, Len(s) - 1)

RECURSIVE TrimEndMatches(_, _)
TrimEndMatches(s, pat) ==
    IF s = <<>> \/ Last(s) \notin pat THEN s
    ELSE TrimEndMatches(SubSeq(s, 1, Len(s) - 1), pat)

WrapPrefix == "SELECT to_jsonb(generated_query) as data FROM ("
WrapSuffix == ") generated_query"

WrappedQuery(cleaned_sql) == <<WrapPrefix>> \o cleaned_sql \o <<WrapSuffix>>

(* while let Some(row) = tup_table.next() { .. }: from row k on, with the  *)
(* counter at i and the rows pushed so far in results.                     *)
RECURSIVE CollectRows(_, _, _, _)
CollectRows(data, k, i, results) ==
    IF k > Len(data) THEN [outcome |-> Ok, rows |-> results]
    ELSE IF data[k] = "bad" THEN [outcome |-> Err("spi::Error"), rows |-> <<>>]
    ELSE IF data[k] = "null"
         THEN [outcome |-> Panic("called Option::unwrap() on a None value"),
               rows |-> <<>>]
    ELSE CollectRows(data, k + 1, I32Inc(i), Append(results, <<i, data[k]>>))

--------------------------------------------------------------------------
(* An invocation of one of the three entry functions *)

Init ==
    /\ op \in Ops
    /\ question \in Questions
    /\ apiKey \in {None, "ABC"}
    /\ transport \in {"resolves", "hangs"}
    /\ catalog \in Catalogs
    /\ constraints \in {{}, ConstraintUniverse}
    /\ pc = "start"
    /\ rows = <<>>
    /\ descriptions = <<>>
    /\ prompt = <<>>
    /\ requests = 0
    /\ elapsed = 0
    /\ response = NoResponse
    /\ dbLog = <<>>
    /\ tup_table = NoTupTable
    /\ notices = <<>>
    /\ outcome = Running
    /\ result = NoResult

(* Every entry function starts the same way: question_prompt(question),    *)
(* then complete_prompt(prompt) up to its await.                           *)
Enter ==
    /\ pc = "start"
    /\ \E db \in DatabaseDescriptionNew(catalog, constraints) :
        /\ rows' = TablesQuery(catalog)
        /\ descriptions' = Append(descriptions, db)
        /\ dbLog' = dbLog \o IntrospectionStatements(db.tables)
        /\ prompt' = QuestionPrompt(db, question)
    /\ LET c == CompletePromptStart(apiKey)
       IN  /\ pc' = c.pc
           /\ outcome' = c.outcome
           /\ requests' = requests + c.issued
    /\ UNCHANGED <<op, question, apiKey, transport, catalog, constraints,
                   elapsed, response, tup_table, notices, result>>

(* A second passes while the request is outstanding. *)
Tick ==
    /\ pc = "awaiting"
    /\ elapsed < TIMEOUT_SECS
    /\ elapsed' = elapsed + 1
    /\ UNCHANGED <<op, question, apiKey, transport, catalog, constraints, pc,
                   rows, descriptions, prompt, requests, response, dbLog,
                   tup_table, notices, outcome, result>>

(* The request future resolves; timeout() polls it before its timer, so    *)
(* from here on the timer no longer counts.                                *)
TransportResolvesWith(R) ==
    /\ pc = "awaiting"
    /\ transport = "resolves"
    /\ \E r \in R : response' = r
    /\ pc' = "ready"
    /\ elapsed' = 0
    /\ UNCHANGED <<op, question, apiKey, transport, catalog, constraints,
                   rows, descriptions, prompt, requests, dbLog, tup_table,
                   notices, outcome, result>>

TransportResolves == TransportResolvesWith(Responses)

TimeoutAsTransportError ==
    /\ pc = "awaiting"
    /\ elapsed = TIMEOUT_SECS
    /\ pc' = "done"
    /\ outcome' = Err("reqwest::Error")
    /\ UNCHANGED <<op, question, apiKey, transport, catalog, constraints,
                   rows, descriptions, prompt, requests, elapsed, response,
                   dbLog, tup_table, notices, result>>

(* timeout(Duration::from_secs(20), request).await gives Err(Elapsed),     *)
(* which the first ? returns from complete_prompt and the caller's ? from  *)
(* the entry function.                                                     *)
TimeoutElapses ==
    /\ pc = "awaiting"
    /\ elapsed = TIMEOUT_SECS
    /\ pc' = "done"
    /\ outcome' = Err("Elapsed")
    /\ UNCHANGED <<op, question, apiKey, transport, catalog, constraints,
                   rows, descriptions, prompt, requests, elapsed, response,
                   dbLog, tup_table, notices, result>>

GiveMeAQueryToExecutes ==
    /\ pc = "ready"
    /\ op = "give_me_a_query_to"
    /\ LET c == CompletePrompt(response)
       IN  IF c.outcome # Ok
           THEN outcome' = c.outcome /\ UNCHANGED <<notices, dbLog, result>>
           ELSE /\ notices' = Append(notices,
                                     <<"You can try this query:\n">> \o c.text)
                /\ dbLog' = Append(dbLog, [kind |-> "update", sql |-> c.text])
                /\ outcome' = Ok
                /\ result' = Unit
    /\ pc' = "done"
    /\ UNCHANGED <<op, question, apiKey, transport, catalog, constraints,
                   rows, descriptions, prompt, requests, elapsed, response,
                   tup_table>>

GiveMeAQueryTo ==
    /\ pc = "ready"
    /\ op = "give_me_a_query_to"
    /\ LET c == CompletePrompt(response)
       IN  IF c.outcome # Ok
           THEN outcome' = c.outcome /\ UNCHANGED <<notices, result>>
           ELSE /\ notices' = Append(notices,
                                     <<"You can try this query:\n">> \o c.text)
                /\ outcome' = Ok
                /\ result' = Unit
    /\ pc' = "done"
    /\ UNCHANGED <<op, question, apiKey, transport, catalog, constraints,
                   rows, descriptions, prompt, requests, elapsed, response,
                   dbLog, tup_table>>

ImFeelingLuckyWith(D) ==
    /\ pc = "ready"
    /\ op = "im_feeling_lucky"
    /\ LET c == CompletePrompt(response)
       IN  IF c.outcome # Ok
           THEN outcome' = c.outcome
                /\ UNCHANGED <<notices, dbLog, tup_table, result>>
           ELSE \E db \in D :
                LET sql == c.text
                    cleaned_sql == TrimEndMatches(sql, TrimChars)
                    got == IF db.ok THEN CollectRows(db.data, 1, 0, <<>>)
                           ELSE [outcome |-> Err("spi::Error"), rows |-> <<>>]
                IN  /\ notices' = Append(notices, <<"Executing query:\n">> \o sql)
                    /\ tup_table' = db
                    /\ dbLog' = Append(dbLog, [kind |-> "select",
                                               sql |-> WrappedQuery(cleaned_sql)])
                    /\ outcome' = got.outcome
                    /\ result' = IF got.outcome = Ok THEN TableIterator(got.rows)
                                 ELSE NoResult
    /\ pc' = "done"
    /\ UNCHANGED <<op, question, apiKey, transport, catalog, constraints,
                   rows, descriptions, prompt, requests, elapsed, response>>

ImFeelingLucky == ImFeelingLuckyWith(DbReadResults)

ImFeelingLuckyDml ==
    /\ pc = "ready"
    /\ op = "im_feeling_lucky_dml"
    /\ LET c == CompletePrompt(response)
       IN  IF c.outcome # Ok
           THEN outcome' = c.outcome /\ UNCHANGED <<notices, dbLog, result>>
           ELSE \E updated \in BOOLEAN :
                /\ notices' = Append(notices, <<"Executing:\n">> \o c.text)
                /\ dbLog' = Append(dbLog, [kind |-> "update", sql |-> c.text])
                /\ outcome' = IF updated THEN Ok ELSE Err("spi::Error")
                /\ result' = IF updated THEN Unit ELSE NoResult
    /\ pc' = "done"
    /\ UNCHANGED <<op, question, apiKey, transport, catalog, constraints,
                   rows, descriptions, prompt, requests, elapsed, response,
                   tup_table>>

Next ==
    \/ Enter
    \/ Tick
    \/ TransportResolves
    \/ TimeoutElapses
    \/ GiveMeAQueryTo
    \/ ImFeelingLucky
    \/ ImFeelingLuckyDml

Spec == Init /\ [][Next]_vars

(* Time passes while the request is outstanding, and the tokio timer of    *)
(* timeout() fires once the ceiling is reached.                            *)
FairSpec == Spec /\ WF_vars(Tick) /\ WF_vars(TimeoutElapses)

--------------------------------------------------------------------------
(* im_feeling_lucky on every generated text up to MaxSqlLen characters *)

TrimResponses == {[kind |-> "ok", choices |-> <<t>>] : t \in AllSqlTexts}

InitTrim ==
    /\ Init
    /\ op = "im_feeling_lucky"
    /\ question = <<"count users">>
    /\ apiKey = "ABC"
    /\ transport = "resolves"
    /\ catalog = {}
    /\ constraints = {}

TransportResolvesTrim == TransportResolvesWith(TrimResponses)

ImFeelingLuckyTrim == ImFeelingLuckyWith(DbReadResultsOf(1))

NextTrim ==
    \/ Enter
    \/ Tick
    \/ TransportResolvesTrim
    \/ TimeoutElapses
    \/ ImFeelingLuckyTrim

TrimSpec == InitTrim /\ [][NextTrim]_vars

--------------------------------------------------------------------------
(* DatabaseDescription::new() called repeatedly on an unchanged database,  *)
(* as tests::test_hello_schema_dump calls it.                              *)

InitIntrospect ==
    /\ op = "DatabaseDescription::new"
    /\ question = <<>>
    /\ apiKey = "ABC"
    /\ transport = "resolves"
    /\ catalog \in Catalogs
    /\ constraints \in SUBSET ConstraintUniverse
    /\ pc = "describe"
    /\ rows = <<>>
    /\ descriptions = <<>>
    /\ prompt = <<>>
    /\ requests = 0
    /\ elapsed = 0
    /\ response = NoResponse
    /\ dbLog = <<>>
    /\ tup_table = NoTupTable
    /\ notices = <<>>
    /\ outcome = Running
    /\ result = NoResult

Describe ==
    /\ pc = "describe"
    /\ Len(descriptions) < MaxDescribes
    /\ \E db \in DatabaseDescriptionNew(catalog, constraints) :
        /\ rows' = TablesQuery(catalog)
        /\ descriptions' = Append(descriptions, db)
        /\ dbLog' = dbLog \o IntrospectionStatements(db.tables)
    /\ UNCHANGED <<op, question, apiKey, transport, catalog, constraints, pc,
                   prompt, requests, elapsed, response, tup_table, notices,
                   outcome, result>>

NextIntrospect == Describe

IntrospectSpec == InitIntrospect /\ [][NextIntrospect]_vars

--------------------------------------------------------------------------
(* The grouping pass of DatabaseDescription::new on a tuple table in any   *)
(* row order, sorted or not.                                               *)

RowUniverse == {SelectList(c) : c \in ColumnUniverse}

Range(s) == {s[i] : i \in DOMAIN s}

TupleTables ==
    {s \in SeqsUpTo(RowUniverse, MaxGroupRows) : Cardinality(Range(s)) = Len(s)}

InitGroup ==
    /\ op = "DatabaseDescription::new"
    /\ question = <<>>
    /\ apiKey = "ABC"
    /\ transport = "resolves"
    /\ rows \in TupleTables
    /\ catalog = {c \in ColumnUniverse : SelectList(c) \in Range(rows)}
    /\ constraints = {}
    /\ pc = "group"
    /\ descriptions = <<>>
    /\ prompt = <<>>
    /\ requests = 0
    /\ elapsed = 0
    /\ response = NoResponse
    /\ dbLog = <<>>
    /\ tup_table = NoTupTable
    /\ notices = <<>>
    /\ outcome = Running
    /\ result = NoResult

Group ==
    /\ pc = "group"
    /\ descriptions' = Append(descriptions, [tables |-> GroupTables(rows)])
    /\ pc' = "grouped"
    /\ UNCHANGED <<op, question, apiKey, transport, catalog, constraints, rows,
                   prompt, requests, elapsed, response, dbLog, tup_table,
                   notices, outcome, result>>

NextGroup == Group

GroupSpec == InitGroup /\ [][NextGroup]_vars

--------------------------------------------------------------------------
(* Vocabulary of the properties *)

(* The error classes, as the outcomes the code produces for them *)
MissingCredential == Panic("pg_human.api_key is not set")
CompletionTimeout == Err("Elapsed")
CompletionTransportFailure == {Err("reqwest::Error"), Err("OpenAiError")}

GeneratedExecuted == \E i \in DOMAIN dbLog : IsGenerated(dbLog[i])

CompletionReturnedText == response.kind = "ok" /\ response.choices # <<>>

GeneratedSql == IF CompletionReturnedText THEN response.choices[1] ELSE <<>>

Contains(s, t) ==
    \E i \in 0..(Len(s) - Len(t)) : SubSeq(s, i + 1, i + Len(t)) = t

IsPrefix(t, s) == Len(t) <= Len(s) /\ SubSeq(s, 1, Len(t)) = t

Failed == outcome.kind \in {"err", "panic"}

--------------------------------------------------------------------------
(* C1: in im_feeling_lucky and im_feeling_lucky_dml generated SQL reaches  *)
(* the database only once the completion step has returned a text, and it  *)
(* is that text; when the completion step failed by timeout or by a        *)
(* transport/API error the invocation has failed, returned nothing and     *)
(* executed no generated SQL.                                              *)
C1_ExecutedOnlyAfterCompletion ==
    /\ GeneratedExecuted =>
        /\ op \in {"im_feeling_lucky", "im_feeling_lucky_dml"}
        /\ pc = "done"
        /\ CompletionReturnedText
        /\ Cardinality({i \in DOMAIN dbLog : IsGenerated(dbLog[i])}) = 1
        /\ IsGenerated(Last(dbLog))
        /\ op = "im_feeling_lucky_dml" => Last(dbLog).sql = GeneratedSql
        /\ op = "im_feeling_lucky" =>
               Last(dbLog).sql = WrappedQuery(TrimEndMatches(GeneratedSql, TrimChars))
    /\ (outcome = CompletionTimeout \/ outcome \in CompletionTransportFailure) =>
        /\ pc = "done"
        /\ ~GeneratedExecuted
        /\ result = NoResult

C1_Witness ==
    /\ op = "im_feeling_lucky_dml"
    /\ pc = "done"
    /\ outcome \in CompletionTransportFailure
    /\ response.kind = "OpenAiError"
    /\ ~GeneratedExecuted

(* C2: with no api key configured the invocation ends in the              *)
(* "pg_human.api_key is not set" failure without a completion request      *)
(* ever being issued or resolved and without generated SQL being executed. *)
C2_MissingCredentialBeforeRequest ==
    apiKey = None =>
        /\ requests = 0
        /\ response = NoResponse
        /\ ~GeneratedExecuted
        /\ pc \in {"start", "done"}
        /\ pc = "done" => (outcome = MissingCredential /\ result = NoResult)

C2_Witness ==
    /\ apiKey = None
    /\ pc = "done"
    /\ op = "im_feeling_lucky"
    /\ outcome = MissingCredential

(* C3: a request that never resolves leads to the invocation ending with   *)
(* the Elapsed failure, which is not one of the transport/API failures,    *)
(* and only one request was ever issued.                                   *)
C3_HangingRequestTimesOut ==
    /\ [](requests <= 1)
    /\ [](CompletionTimeout \notin CompletionTransportFailure)
    /\ (pc = "awaiting" /\ transport = "hangs")
          ~> (pc = "done" /\ outcome = CompletionTimeout /\ requests = 1
              /\ elapsed = TIMEOUT_SECS)

C3_Witness ==
    /\ transport = "hangs"
    /\ pc = "done"
    /\ outcome = CompletionTimeout
    /\ requests = 1

(* C4: the text inside the wrapping query is the longest prefix of the     *)
(* generated text that does not end in ';', newline or space: a prefix,    *)
(* not ending in one of the three, with only those three after it.         *)
C4_TrimsOnlyTrailing ==
    (op = "im_feeling_lucky" /\ GeneratedExecuted) =>
        LET stmt == Last(dbLog).sql
            inner == SubSeq(stmt, 2, Len(stmt) - 1)
        IN  /\ Len(stmt) >= 2
            /\ stmt[1] = WrapPrefix
            /\ stmt[Len(stmt)] = WrapSuffix
            /\ IsPrefix(inner, GeneratedSql)
            /\ inner # <<>> => Last(inner) \notin TrimChars
            /\ \A i \in (Len(inner) + 1)..Len(GeneratedSql) :
                   GeneratedSql[i] \in TrimChars

C4_Witness ==
    /\ op = "im_feeling_lucky"
    /\ GeneratedExecuted
    /\ GeneratedSql = <<"x", ";", "x", ";", "\n">>
    /\ Last(dbLog).sql = <<WrapPrefix, "x", ";", "x", WrapSuffix>>

(* C5: when the wrapped query gives n rows that all convert, the function  *)
(* returns n rows, the k-th being (k-1, k-th datum); when the query or a   *)
(* conversion fails it returns an error and no rows.                       *)
C5_RowsIndexedInOrder ==
    (op = "im_feeling_lucky" /\ GeneratedExecuted) =>
        LET data == tup_table.data
            converts == \A k \in DOMAIN data : data[k] \in JsonDatums
            firstBad == CHOOSE k \in DOMAIN data :
                            /\ data[k] \notin JsonDatums
                            /\ \A j \in 1..(k - 1) : data[j] \in JsonDatums
        IN  IF tup_table.ok /\ converts
            THEN /\ outcome = Ok
                 /\ result.type = "TableIterator"
                 /\ Len(result.value) = Len(data)
                 /\ \A k \in DOMAIN data : result.value[k] = <<k - 1, data[k]>>
            ELSE /\ Failed
                 /\ result = NoResult
                 /\ (~tup_table.ok \/ data[firstBad] = "bad") => outcome.kind = "err"

C5_Witness ==
    /\ op = "im_feeling_lucky"
    /\ GeneratedExecuted
    /\ tup_table.ok
    /\ tup_table.data = <<"j2", "j1">>
    /\ result.value = <<<<0, "j2">>, <<1, "j1">>>>

C5_WitnessFailure ==
    /\ op = "im_feeling_lucky"
    /\ GeneratedExecuted
    /\ tup_table.data = <<"j1", "bad">>
    /\ result = NoResult

(* C6 as stated: give_me_a_query_to returns the generated text as its      *)
(* result and never executes it.                                           *)
C6_ReturnsTextAsResult ==
    op = "give_me_a_query_to" =>
        /\ ~GeneratedExecuted
        /\ (pc = "done" /\ outcome = Ok) =>
               (result.type = "String" /\ result.value = GeneratedSql)

(* C6 amended: give_me_a_query_to hands the generated text to the caller   *)
(* in a notice ("You can try this query:" and the text), its own result    *)
(* being empty, and never executes it: the only statements it issues are   *)
(* the introspection queries.                                              *)
C6_NoticeOnlyNeverExecutes ==
    op = "give_me_a_query_to" =>
        /\ \A i \in DOMAIN dbLog :
               dbLog[i].kind \in {"tables_query", "constraint_query"}
        /\ (pc = "done" /\ outcome = Ok) =>
               /\ CompletionReturnedText
               /\ result = Unit
               /\ notices = <<(<<"You can try this query:\n">> \o GeneratedSql)>>
        /\ (pc = "done" /\ outcome # Ok) => (result = NoResult /\ notices = <<>>)

C6_Witness ==
    /\ op = "give_me_a_query_to"
    /\ pc = "done"
    /\ outcome = Ok
    /\ GeneratedSql = <<"x", ";", "x", ";", "\n">>
    /\ Len(dbLog) >= 2

--------------------------------------------------------------------------
(* Vocabulary of the properties about descriptions *)

Count(s, tok) == Cardinality({i \in DOMAIN s : s[i] = tok})

VisibleColumns == {c \in catalog : c.table_schema \in CurrentSchemas}

KeyOf(row) == <<row[1], row[2]>>

(* The catalog row a tuple of the tuple table was selected from *)
ColumnOf(row) == CHOOSE c \in ColumnUniverse : SelectList(c) = row

TableKey(t) == <<t.schema, t.name>>

KeyBefore(a, b) ==
    \/ Rank(a[1]) < Rank(b[1])
    \/ a[1] = b[1] /\ Rank(a[2]) < Rank(b[2])

(* The tuple table is in ORDER BY table_schema, table_name,                *)
(* ordinal_position order.                                                 *)
RowsSorted ==
    \A i, j \in DOMAIN rows :
        i < j => ColumnBefore(ColumnOf(rows[i]), ColumnOf(rows[j]))

(* Some key has rows that are not next to each other. *)
SplitKey(k) ==
    \E i, j \in DOMAIN rows :
        /\ i + 1 < j
        /\ KeyOf(rows[i]) = k
        /\ KeyOf(rows[j]) = k
        /\ \E m \in (i + 1)..(j - 1) : KeyOf(rows[m]) # k

(* C7: the prompt is three turns, System, User, User: the persona text,    *)
(* a turn containing the expanded rendering of the description just built  *)
(* (one CREATE TABLE per visible table, every visible column in it), and   *)
(* a turn containing the question unchanged.                               *)
C7_PromptThreeTurns ==
    pc # "start" =>
        LET db == Last(descriptions)
        IN  /\ Len(prompt) = 3
            /\ <<prompt[1].role, prompt[2].role, prompt[3].role>>
                   = <<"System", "User", "User">>
            /\ prompt[1].content = PersonaText
            /\ Contains(prompt[2].content, FmtDatabase(db, TRUE))
            /\ Count(prompt[2].content, "CREATE TABLE ")
                   = Cardinality({<<c.table_schema, c.table_name>> : c \in VisibleColumns})
            /\ \A c \in VisibleColumns :
                   Contains(prompt[2].content,
                            <<"\n    ", c.column_name, " ", c.data_type>>)
            /\ Contains(prompt[3].content, question)

C7_Witness ==
    /\ pc = "awaiting"
    /\ question = <<"list", " ", "ads">>
    /\ Cardinality({<<c.table_schema, c.table_name>> : c \in VisibleColumns}) = 2
    /\ Len(Last(descriptions).tables[1].constraints) = 2
    /\ Len(prompt) = 3

(* C8 as stated: two introspections of the unchanged database give the     *)
(* same description.                                                       *)
C8_IntrospectionRepeatable ==
    \A i, j \in DOMAIN descriptions : descriptions[i] = descriptions[j]

(* C10: on a sorted tuple table the grouping pass gives one table per      *)
(* key, in key order, each row's column in the table of its key, columns   *)
(* in ordinal order; a key whose rows are apart gives several tables of    *)
(* that key, and the pass still completes.                                 *)
C10_GroupingNeedsSortedRows ==
    pc = "grouped" =>
        LET tables == Last(descriptions).tables
            keys == {KeyOf(rows[i]) : i \in DOMAIN rows}
        IN  /\ RowsSorted =>
                /\ \A k \in keys :
                       Cardinality({i \in DOMAIN tables : TableKey(tables[i]) = k}) = 1
                /\ \A i \in DOMAIN tables : TableKey(tables[i]) \in keys
                /\ \A i, j \in DOMAIN tables :
                       i < j => KeyBefore(TableKey(tables[i]), TableKey(tables[j]))
                /\ \A t \in Range(tables) :
                       /\ Len(t.columns) =
                              Cardinality({i \in DOMAIN rows : KeyOf(rows[i]) = TableKey(t)})
                       /\ \A n \in DOMAIN t.columns :
                              LET row == <<t.schema, t.name, t.columns[n].name,
                                           t.columns[n].type_name>>
                              IN  /\ row \in Range(rows)
                                  /\ \A m \in DOMAIN t.columns :
                                         m < n =>
                                           ColumnOf(<<t.schema, t.name, t.columns[m].name,
                                                      t.columns[m].type_name>>).ordinal_position
                                             < ColumnOf(row).ordinal_position
            /\ \A k \in keys :
                   SplitKey(k) =>
                       Cardinality({i \in DOMAIN tables : TableKey(tables[i]) = k}) > 1
            /\ Len(Flatten([i \in DOMAIN tables |-> tables[i].columns])) = Len(rows)

C10_Witness ==
    /\ pc = "grouped"
    /\ rows = << <<"app", "ads", "name", "text">>, <<"app", "ads", "id", "bigint">>,
                 <<"public", "ads", "name", "text">>,
                 <<"public", "users", "id", "bigint">> >>
    /\ Len(Last(descriptions).tables) = 3

C10_WitnessSplit ==
    /\ pc = "grouped"
    /\ rows = << <<"public", "ads", "name", "text">>,
                 <<"public", "users", "id", "bigint">>,
                 <<"public", "ads", "id", "bigint">> >>
    /\ Len(Last(descriptions).tables) = 3

(* C9 as stated: an empty choice list ends the invocation with a           *)
(* transport/API error value, and no generated SQL is executed.            *)
C9_EmptyChoicesIsTransportFailure ==
    (pc = "done" /\ response.kind = "ok" /\ response.choices = <<>>) =>
        /\ outcome \in CompletionTransportFailure
        /\ ~GeneratedExecuted

==========================================================================
